---- MODULE Spec2Model ----
(***************************************************************************)
(* TaskFlow: the in-memory storage engine (server/storage.ts, MemStorage), *)
(* the zod validation schemas (shared/schema.ts) and the Express routes    *)
(* (server/routes.ts) that are the only callers of the todo operations.    *)
(*                                                                         *)
(* Strings are sequences of UTF-16 code units (naturals), so that trimming,*)
(* length and the default Array.prototype.sort order are computed, not     *)
(* assumed.  A nullable string is <<>> for null and <<s>> for the string s.*)
(* A JSON object is a function whose DOMAIN is the set of keys present.    *)
(***************************************************************************)
EXTENDS Integers, Sequences, FiniteSets, TLC

VARIABLES todos, users, created, held, last, reqs, log, client

vars == <<todos, users, created, held, last, reqs, log, client>>

\* the requests in flight on the server, and the browser: what a request that
\* is handled in one piece, and a call of the storage engine, leave as they are
beyond == <<reqs, log, client>>

----------------------------------------------------------------------------
(* Bounds of the model *)

\* how many todo ids randomUUID hands out in Spec and SpecCaller
MaxTodos == 2
\* how many todo ids randomUUID hands out in SpecCat
MaxCatTodos == 3
\* how many user ids randomUUID hands out in SpecUsers
MaxUsers == 3
\* how many requests the server receives in SpecConc
MaxRequests == 4
\* how many todos the store holds when the page is loaded in SpecQuery
MaxSnapshot == 3
\* how many todos the page adds in SpecClient
MaxAdded == 2
\* how many todos, and how many users, are created in SpecStore
MaxStore == 2
\* how many mutations of the page are in flight at once in SpecFlight
MaxInFlight == 2

----------------------------------------------------------------------------
(* Strings *)

\* "", "a" and "B" (code units 97 and 66: "B" sorts before "a")
Empty == <<>>
StrA == <<97>>
StrB == <<66>>

\* text: .max(500) of the client's form schema
MaxTextLen == 500

\* null, and the string s, as values of a nullable string
Null == <<>>
Some(s) == <<s>>

\* ECMAScript WhiteSpace/LineTerminator code units among those the model uses
IsSpace(c) == c \in {9, 10, 11, 12, 13, 32, 160}

RECURSIVE TrimStart(_)
TrimStart(s) ==
    IF s # <<>> /\ IsSpace(Head(s)) THEN TrimStart(Tail(s)) ELSE s

RECURSIVE TrimEnd(_)
TrimEnd(s) ==
    IF s # <<>> /\ IsSpace(s[Len(s)]) THEN TrimEnd(SubSeq(s, 1, Len(s) - 1)) ELSE s

\* String.prototype.trim
Trim(s) == TrimEnd(TrimStart(s))

\* s < t comparing UTF-16 code units left to right: the order of Array.sort()
\* without a comparator
RECURSIVE StrLess(_, _)
StrLess(s, t) ==
    IF t = <<>> THEN FALSE
    ELSE IF s = <<>> THEN TRUE
    ELSE IF Head(s) # Head(t) THEN Head(s) < Head(t)
    ELSE StrLess(Tail(s), Tail(t))

----------------------------------------------------------------------------
(* The Map of ECMAScript: entries in insertion order *)

MapKeys(m) == {m[i].key : i \in 1..Len(m)}

MapHas(m, k) == k \in MapKeys(m)

MapIndex(m, k) == CHOOSE i \in 1..Len(m) : m[i].key = k

MapGet(m, k) == m[MapIndex(m, k)].value

\* a set that moves an existing key to the end, as delete followed by set does
MapSetMovesToEnd(m, k, v) ==
    Append(SelectSeq(m, LAMBDA e : e.key # k), [key |-> k, value |-> v])

\* Map.prototype.set: an existing key keeps its position, a new key is appended
MapSet(m, k, v) ==
    IF MapHas(m, k)
    THEN [m EXCEPT ![MapIndex(m, k)] = [key |-> k, value |-> v]]
    ELSE Append(m, [key |-> k, value |-> v])

\* Map.prototype.delete
MapDelete(m, k) == SelectSeq(m, LAMBDA e : e.key # k)

\* Array.from(map.values())
MapValues(m) == [i \in 1..Len(m) |-> m[i].value]

----------------------------------------------------------------------------
(* shared/schema.ts *)

priorityEnum == {"low", "medium", "high"}

TodoKeys == {"text", "completed", "priority", "category"}

IsString(v) == v \in Seq(Nat)

IsNullableString(v) == v = Null \/ (Len(v) = 1 /\ IsString(v[1]))

\* a schema in passthrough mode keeps every key of the body
StripNothing(body) == body

\* zod objects strip the keys that are not in their shape
Strip(body) == [k \in (DOMAIN body) \cap TodoKeys |-> body[k]]

FieldsOk(body) ==
    /\ "text" \in DOMAIN body => IsString(body["text"])
    /\ "completed" \in DOMAIN body => body["completed"] \in BOOLEAN
    /\ "priority" \in DOMAIN body => body["priority"] \in priorityEnum
    /\ "category" \in DOMAIN body => IsNullableString(body["category"])

\* insertTodoSchema.safeParse(body).success
insertTodoSchemaOk(body) == "text" \in DOMAIN body /\ FieldsOk(body)

\* insertTodoSchema.safeParse(body).data
insertTodoSchema(body) ==
    LET d == Strip(body)
    IN  IF "priority" \in DOMAIN d THEN d ELSE d @@ ("priority" :> "medium")

\* a gate that lets every body through
updateTodoSchemaOkUnchecked(body) == TRUE

\* updateTodoSchema.safeParse(body).success
updateTodoSchemaOk(body) == FieldsOk(body)

\* updateTodoSchema.safeParse(body).data
updateTodoSchema(body) == Strip(body)

----------------------------------------------------------------------------
(* server/storage.ts: MemStorage *)

\* obj.k ?? dflt: the default replaces an absent key (null is Null itself, and
\* the schemas admit null for category only)
Coalesce(obj, k, dflt) == IF k \in DOMAIN obj THEN obj[k] ELSE dflt

\* an object literal that forgets the supplied category
NewTodoWithoutCategory(id, insertTodo) ==
    [id        |-> id,
     text      |-> insertTodo["text"],
     completed |-> Coalesce(insertTodo, "completed", FALSE),
     priority  |-> Coalesce(insertTodo, "priority", "medium"),
     category  |-> Null]

\* the object literal of createTodo
NewTodo(id, insertTodo) ==
    [id        |-> id,
     text      |-> insertTodo["text"],
     completed |-> Coalesce(insertTodo, "completed", FALSE),
     priority  |-> Coalesce(insertTodo, "priority", "medium"),
     category  |-> Coalesce(insertTodo, "category", Null)]

\* { ...updates, ...todo }: the spreads in the wrong order
SpreadTodoLast(todo, updates) ==
    [k \in (DOMAIN todo) \cup (DOMAIN updates) |->
        IF k \in DOMAIN todo THEN todo[k] ELSE updates[k]]

\* { ...todo, ...updates }
Spread(todo, updates) ==
    [k \in (DOMAIN todo) \cup (DOMAIN updates) |->
        IF k \in DOMAIN updates THEN updates[k] ELSE todo[k]]

getAllTodos == MapValues(todos)

getTodoFound(id) == MapHas(todos, id)

getTodo(id) == MapGet(todos, id)

\* a store that lists the newest todo first
createTodoFirst(id, insertTodo) ==
    <<[key |-> id, value |-> NewTodo(id, insertTodo)]>> \o todos

\* the Map after createTodo
createTodo(id, insertTodo) == MapSet(todos, id, NewTodo(id, insertTodo))

\* updateTodo returns undefined
updateTodoAbsent(id) == ~MapHas(todos, id)

\* an updateTodo without the early return: it stores the update under the id
updateTodoUpsert(id, updates) ==
    MapSet(todos, id, IF MapHas(todos, id) THEN Spread(MapGet(todos, id), updates)
                      ELSE updates)

\* an updateTodo that merges into the todo as it was created, as one that works
\* on a copy read before other updates were stored does
updateTodoLosesUpdates(id, updates) ==
    IF ~MapHas(todos, id) THEN todos
    ELSE MapSet(todos, id,
                Spread(NewTodo(id, "text" :> MapGet(todos, id)["text"]), updates))

\* the Map after updateTodo
updateTodo(id, updates) ==
    IF ~MapHas(todos, id) THEN todos
    ELSE MapSet(todos, id, Spread(MapGet(todos, id), updates))

\* a deleteTodo that reports success whatever the Map held
deleteTodoAlwaysTrue(id) == TRUE

\* the boolean deleteTodo returns
deleteTodoResult(id) == MapHas(todos, id)

\* a deleteTodo that empties the Map when it finds the id
deleteTodoClears(id) == IF MapHas(todos, id) THEN <<>> ELSE todos

\* the Map after deleteTodo
deleteTodo(id) == MapDelete(todos, id)

\* the Set built by the loop of getCategories: a category is added when truthy
CategorySet(m) ==
    {m[i].value["category"][1] : i \in {j \in 1..Len(m) :
        m[j].value["category"] # Null /\ m[j].value["category"][1] # Empty}}

\* a sort that ignores case ("a" before "B"), as localeCompare would
RECURSIVE SortStringsIgnoringCase(_)
SortStringsIgnoringCase(S) ==
    IF S = {} THEN <<>>
    ELSE LET Fold(s) == [i \in 1..Len(s) |->
                            IF s[i] \in 65..90 THEN s[i] + 32 ELSE s[i]]
             least == CHOOSE s \in S : \A t \in S \ {s} :
                          StrLess(Fold(s), Fold(t)) \/ (Fold(s) = Fold(t) /\ StrLess(t, s))
         IN  <<least>> \o SortStringsIgnoringCase(S \ {least})

\* Array.prototype.sort() of a set of distinct strings
RECURSIVE SortStrings(_)
SortStrings(S) ==
    IF S = {} THEN <<>>
    ELSE LET least == CHOOSE s \in S : \A t \in S \ {s} : StrLess(s, t)
         IN  <<least>> \o SortStrings(S \ {least})

getCategories == SortStrings(CategorySet(todos))

----------------------------------------------------------------------------
(* Request bodies *)

\* the objects of S, and each of them with key k set to a value of V
Ext(S, k, V) == S \cup {f @@ (k :> v) : f \in S, v \in V}

NoBody == <<>>

\* POST bodies of Spec: only text, each optional field supplied alone, all
\* supplied, a body without text, a priority outside the enum, a body with an id
PostBodies ==
    {("text" :> t) : t \in {Empty, StrA}}
    \cup {("text" :> StrA) @@ ("completed" :> b) : b \in BOOLEAN}
    \cup {("text" :> StrA) @@ ("priority" :> p) : p \in {"high", "urgent"}}
    \cup {("text" :> StrA) @@ ("category" :> c) : c \in {Null, Some(StrB)}}
    \cup {("text" :> Empty) @@ ("completed" :> TRUE) @@ ("priority" :> "high")
              @@ ("category" :> Some(StrB)),
          NoBody,
          ("text" :> StrA) @@ ("id" :> 1)}

\* PATCH bodies of Spec: the empty update, every single field, two fields at
\* once, a priority outside the enum, bodies with an id
PatchBodies ==
    {NoBody}
    \cup {("text" :> t) : t \in {Empty, StrA}}
    \cup {("completed" :> b) : b \in BOOLEAN}
    \cup {("priority" :> p) : p \in {"medium", "high", "urgent"}}
    \cup {("category" :> c) : c \in {Null, Some(StrB)}}
    \cup {("completed" :> TRUE) @@ ("category" :> Some(StrB)),
          ("id" :> 1),
          ("id" :> 2) @@ ("text" :> StrA)}

\* the categories of SpecCat: null, "", "a", "B"
Categories == {Null, Some(Empty), Some(StrA), Some(StrB)}

\* POST and PATCH bodies of SpecCat: todos that differ in their category only
CatPostBodies ==
    {NoBody, ("text" :> StrA)} \cup {("text" :> StrA) @@ ("category" :> c) : c \in Categories}

CatPatchBodies ==
    {("priority" :> "urgent")} \cup {("category" :> c) : c \in Categories}

\* createUser arguments of SpecUsers
InsertUsers == [username : {StrA, StrB}, password : {StrA, StrB}]

----------------------------------------------------------------------------
(* server/routes.ts: one action per route handler *)

Fresh(id) == \A i \in 1..Len(created) : created[i] # id

Response(op, id, body, arg, status, ret) ==
    [op |-> op, id |-> id, body |-> body, arg |-> arg, status |-> status, ret |-> ret]

\* app.get("/api/todos")
GetTodos ==
    /\ last' = Response("GET /api/todos", 0, NoBody, NoBody, 200, getAllTodos)
    /\ UNCHANGED <<todos, users, created, held>>
    /\ UNCHANGED beyond

\* app.get("/api/categories")
GetCategories ==
    /\ last' = Response("GET /api/categories", 0, NoBody, NoBody, 200, getCategories)
    /\ UNCHANGED <<todos, users, created, held>>
    /\ UNCHANGED beyond

\* app.get("/api/todos/:id")
GetTodo(id) ==
    /\ last' = IF ~getTodoFound(id)
               THEN Response("GET /api/todos/:id", id, NoBody, NoBody, 404, NoBody)
               ELSE Response("GET /api/todos/:id", id, NoBody, NoBody, 200, getTodo(id))
    /\ UNCHANGED <<todos, users, created, held>>
    /\ UNCHANGED beyond

\* app.post("/api/todos"); id is the value randomUUID returns
PostTodo(body, id) ==
    /\ UNCHANGED beyond
    /\ IF ~insertTodoSchemaOk(body)
       THEN /\ last' = Response("POST /api/todos", 0, body, NoBody, 400, NoBody)
            /\ UNCHANGED <<todos, users, created, held>>
       ELSE /\ Fresh(id)
            /\ todos' = createTodo(id, insertTodoSchema(body))
            /\ created' = Append(created, id)
            /\ last' = Response("POST /api/todos", id, body, insertTodoSchema(body),
                                201, MapGet(todos', id))
            /\ UNCHANGED <<users, held>>

\* app.patch("/api/todos/:id")
PatchTodo(id, body) ==
    /\ UNCHANGED beyond
    /\ IF ~updateTodoSchemaOk(body)
       THEN /\ last' = Response("PATCH /api/todos/:id", id, body, NoBody, 400, NoBody)
            /\ UNCHANGED <<todos, users, created, held>>
       ELSE /\ todos' = updateTodo(id, updateTodoSchema(body))
            /\ held' = held \ {id}
            /\ last' = IF updateTodoAbsent(id)
                       THEN Response("PATCH /api/todos/:id", id, body,
                                     updateTodoSchema(body), 404, NoBody)
                       ELSE Response("PATCH /api/todos/:id", id, body,
                                     updateTodoSchema(body), 200, MapGet(todos', id))
            /\ UNCHANGED <<users, created>>

\* app.delete("/api/todos/:id")
DeleteTodo(id) ==
    /\ todos' = deleteTodo(id)
    /\ held' = held \ {id}
    /\ last' = IF ~deleteTodoResult(id)
               THEN Response("DELETE /api/todos/:id", id, NoBody, NoBody, 404, NoBody)
               ELSE Response("DELETE /api/todos/:id", id, NoBody, NoBody, 204, NoBody)
    /\ UNCHANGED <<users, created>>
    /\ UNCHANGED beyond

----------------------------------------------------------------------------
(* Spec: the todo routes, with requests in any order *)

Ids == 1..MaxTodos

\* the browser before the page is loaded
NoClient == <<>>

\* the next id of Spec: ids are opaque, so the least unused one stands for
\* whatever fresh value randomUUID returns
NextId == Len(created) + 1

Init ==
    /\ todos = <<>>
    /\ users = <<>>
    /\ created = <<>>
    /\ held = {}
    /\ last = Response("none", 0, NoBody, NoBody, 0, NoBody)
    /\ reqs = <<>>
    /\ log = <<>>
    /\ client = NoClient

Next ==
    \/ GetTodos
    \/ GetCategories
    \/ \E id \in Ids : GetTodo(id)
    \/ \E body \in PostBodies : \E id \in Ids \cap {NextId} : PostTodo(body, id)
    \/ \E id \in Ids : \E body \in PatchBodies : PatchTodo(id, body)
    \/ \E id \in Ids : DeleteTodo(id)

Spec == Init /\ [][Next]_vars

----------------------------------------------------------------------------
(* SpecCat: up to MaxCatTodos todos that differ in category, with ids in any *)
(* order, for what depends on the order and the categories of several todos *)

CatIds == 1..MaxCatTodos

NextCat ==
    \/ GetTodos
    \/ GetCategories
    \/ \E body \in CatPostBodies : \E id \in CatIds : PostTodo(body, id)
    \/ \E id \in CatIds : \E body \in CatPatchBodies : PatchTodo(id, body)
    \/ \E id \in CatIds : DeleteTodo(id)

SpecCat == Init /\ [][NextCat]_vars

----------------------------------------------------------------------------
(* SpecCaller: a caller of the IStorage interface that keeps what getTodo   *)
(* and getAllTodos return.  held is the set of ids whose stored object the  *)
(* caller holds: both return the objects of the Map, not copies, while      *)
(* updateTodo stores a new object and deleteTodo drops the stored one.      *)

\* getTodo(id), result kept
CallerGetTodo(id) ==
    /\ getTodoFound(id)
    /\ held' = held \cup {id}
    /\ last' = Response("getTodo", id, NoBody, NoBody, 0, getTodo(id))
    /\ UNCHANGED <<todos, users, created>>
    /\ UNCHANGED beyond

\* getAllTodos(), result kept: a new array of the stored objects
CallerGetAllTodos ==
    /\ held' = MapKeys(todos)
    /\ last' = Response("getAllTodos", 0, NoBody, NoBody, 0, getAllTodos)
    /\ UNCHANGED <<todos, users, created>>
    /\ UNCHANGED beyond

\* the caller assigns to a property of an object it holds
CallerWrites(id, k, v) ==
    /\ id \in held
    /\ todos' = [todos EXCEPT ![MapIndex(todos, id)].value[k] = v]
    /\ last' = Response("write", id, k :> v, NoBody, 0, NoBody)
    /\ UNCHANGED <<users, created, held>>
    /\ UNCHANGED beyond

NextCaller ==
    \/ \E body \in {NoBody, ("text" :> StrA),
                       ("text" :> StrA) @@ ("category" :> Some(StrB))} :
           \E id \in Ids \cap {NextId} : PostTodo(body, id)
    \/ \E id \in Ids : \E body \in {("completed" :> TRUE), ("priority" :> "urgent")} :
           PatchTodo(id, body)
    \/ \E id \in Ids : DeleteTodo(id)
    \/ \E id \in Ids : CallerGetTodo(id)
    \/ CallerGetAllTodos
    \/ \E id \in Ids : \E t \in {Empty, StrB} : CallerWrites(id, "text", t)
    \/ \E id \in Ids : \E c \in {Null, Some(StrA)} : CallerWrites(id, "category", c)

SpecCaller == Init /\ [][NextCaller]_vars

----------------------------------------------------------------------------
(* SpecUsers: the user operations of MemStorage *)

UserIds == 1..MaxUsers

\* createUser; id is the value randomUUID returns
createUser(insertUser, id) ==
    /\ ~MapHas(users, id)
    /\ users' = MapSet(users, id, [id |-> id, username |-> insertUser.username,
                                   password |-> insertUser.password])
    /\ last' = Response("createUser", id, insertUser, NoBody, 0, MapGet(users', id))
    /\ UNCHANGED <<todos, created, held>>
    /\ UNCHANGED beyond

\* getUser
getUser(id) ==
    /\ last' = IF MapHas(users, id)
               THEN Response("getUser", id, NoBody, NoBody, 0, <<MapGet(users, id)>>)
               ELSE Response("getUser", id, NoBody, NoBody, 0, <<>>)
    /\ UNCHANGED <<todos, users, created, held>>
    /\ UNCHANGED beyond

\* Array.from(this.users.values()).find(...): the first user with the
\* username, <<user>>, or <<>> for undefined
FindByUsername(values, username) ==
    LET matches == {i \in 1..Len(values) : values[i].username = username}
    IN  IF matches = {} THEN <<>>
        ELSE <<values[CHOOSE i \in matches : \A j \in matches : i <= j]>>

\* getUserByUsername
getUserByUsername(username) ==
    /\ last' = Response("getUserByUsername", 0, username, NoBody, 0,
                        FindByUsername(MapValues(users), username))
    /\ UNCHANGED <<todos, users, created, held>>
    /\ UNCHANGED beyond

NextUsers ==
    \/ \E insertUser \in InsertUsers : \E id \in UserIds : createUser(insertUser, id)
    \/ \E id \in UserIds : getUser(id)
    \/ \E username \in {StrA, StrB} : getUserByUsername(username)

SpecUsers == Init /\ [][NextUsers]_vars

----------------------------------------------------------------------------
(* SpecConc: requests handled concurrently.  A handler runs without        *)
(* interruption up to its await: validation and the whole body of the      *)
(* storage method (which has no await of its own) are one step, and what   *)
(* follows the await, the response, is another.  reqs holds the requests   *)
(* whose handler has started, log the storage calls in the order they ran. *)

ConcIds == {1}

ConcPostBodies == {NoBody, ("text" :> StrA)}

ConcPatchBodies ==
    {("completed" :> TRUE), ("category" :> Some(StrB)), ("priority" :> "urgent")}

Request(op, id, body, pc, value, status) ==
    [op |-> op, id |-> id, body |-> body, pc |-> pc, value |-> value, status |-> status]

Call(method, id, arg) == [method |-> method, id |-> id, arg |-> arg, req |-> Len(reqs) + 1]

\* app.get("/api/todos") up to: await storage.getAllTodos()
GetTodosBegin ==
    /\ Len(reqs) < MaxRequests
    /\ reqs' = Append(reqs, Request("GET /api/todos", 0, NoBody, "awaiting", getAllTodos, 0))
    /\ log' = Append(log, Call("getAllTodos", 0, NoBody))
    /\ UNCHANGED <<todos, users, created, held, last, client>>

\* app.post("/api/todos") up to: await storage.createTodo(parsed.data), or the
\* 400 response
PostTodoBegin(body, id) ==
    /\ Len(reqs) < MaxRequests
    /\ IF ~insertTodoSchemaOk(body)
       THEN /\ reqs' = Append(reqs, Request("POST /api/todos", 0, body, "responded", NoBody, 400))
            /\ UNCHANGED <<todos, created, log>>
       ELSE /\ Fresh(id)
            /\ todos' = createTodo(id, insertTodoSchema(body))
            /\ created' = Append(created, id)
            /\ reqs' = Append(reqs, Request("POST /api/todos", id, body, "awaiting",
                                            MapGet(todos', id), 0))
            /\ log' = Append(log, Call("createTodo", id, insertTodoSchema(body)))
    /\ UNCHANGED <<users, held, last, client>>

\* app.patch("/api/todos/:id") up to: await storage.updateTodo(id, parsed.data),
\* or the 400 response; the value is <<>> for undefined
PatchTodoBegin(id, body) ==
    /\ Len(reqs) < MaxRequests
    /\ IF ~updateTodoSchemaOk(body)
       THEN /\ reqs' = Append(reqs, Request("PATCH /api/todos/:id", id, body, "responded",
                                            NoBody, 400))
            /\ UNCHANGED <<todos, log>>
       ELSE /\ todos' = updateTodo(id, updateTodoSchema(body))
            /\ reqs' = Append(reqs, Request("PATCH /api/todos/:id", id, body, "awaiting",
                                            IF updateTodoAbsent(id) THEN <<>>
                                            ELSE <<MapGet(todos', id)>>, 0))
            /\ log' = Append(log, Call("updateTodo", id, updateTodoSchema(body)))
    /\ UNCHANGED <<users, created, held, last, client>>

\* app.delete("/api/todos/:id") up to: await storage.deleteTodo(id)
DeleteTodoBegin(id) ==
    /\ Len(reqs) < MaxRequests
    /\ todos' = deleteTodo(id)
    /\ reqs' = Append(reqs, Request("DELETE /api/todos/:id", id, NoBody, "awaiting",
                                    deleteTodoResult(id), 0))
    /\ log' = Append(log, Call("deleteTodo", id, NoBody))
    /\ UNCHANGED <<users, created, held, last, client>>

\* the status a handler answers with after its await
StatusOf(req) ==
    IF req.op = "GET /api/todos" THEN 200
    ELSE IF req.op = "POST /api/todos" THEN 201
    ELSE IF req.op = "PATCH /api/todos/:id" THEN (IF req.value = <<>> THEN 404 ELSE 200)
    ELSE (IF req.value THEN 204 ELSE 404)

\* a handler resumes after its await and responds
Respond(r) ==
    /\ r \in 1..Len(reqs)
    /\ reqs[r].pc = "awaiting"
    /\ reqs' = [reqs EXCEPT ![r].pc = "responded", ![r].status = StatusOf(reqs[r])]
    /\ UNCHANGED <<todos, users, created, held, last, log, client>>

NextConc ==
    \/ GetTodosBegin
    \/ \E body \in ConcPostBodies : \E id \in Ids \cap {NextId} : PostTodoBegin(body, id)
    \/ \E id \in ConcIds : \E body \in ConcPatchBodies : PatchTodoBegin(id, body)
    \/ \E id \in ConcIds : DeleteTodoBegin(id)
    \/ \E r \in 1..MaxRequests : Respond(r)

SpecConc == Init /\ [][NextConc]_vars

----------------------------------------------------------------------------
(* client/src/pages/home.tsx: the query layer of Home and the rendering of  *)
(* TodoList.  client holds the cached query data and the view state.        *)

\* the value "all" of the category filter
AllCategories == <<97, 108, 108>>

Space == <<32>>

TodosQuery == "/api/todos"
CategoriesQuery == "/api/categories"

\* useState initial values around the data of the two queries; added is the id of
\* the todo the latest successful mutation added (0 when it added none), stale
\* the queries that were invalidated and not fetched again, loaded the queries
\* that have data
Home(todosData, categoriesData) ==
    [todos          |-> todosData,
     categories     |-> categoriesData,
     filter         |-> "all",
     searchQuery    |-> Empty,
     sortBy         |-> "newest",
     categoryFilter |-> AllCategories,
     added          |-> 0,
     stale          |-> {},
     loaded         |-> {TodosQuery, CategoriesQuery},
     togglingIds    |-> {},
     deletingIds    |-> {},
     savingIds      |-> {}]

\* String.prototype.toLowerCase on the letters A-Z
toLowerCase(s) == [i \in 1..Len(s) |-> IF s[i] \in 65..90 THEN s[i] + 32 ELSE s[i]]

\* String.prototype.includes
includes(s, q) == \E i \in 0..(Len(s) - Len(q)) : SubSeq(s, i + 1, i + Len(q)) = q

\* a.localeCompare(b) for strings of letters: letters compare without regard
\* to case first, and at the first difference in case alone the lower-case
\* letter comes first
localeCompare(a, b) ==
    IF toLowerCase(a) # toLowerCase(b)
        THEN (IF StrLess(toLowerCase(a), toLowerCase(b)) THEN -1 ELSE 1)
    ELSE IF a = b THEN 0
    ELSE LET i == CHOOSE j \in 1..Len(a) :
                      a[j] # b[j] /\ \A k \in 1..(j - 1) : a[k] = b[k]
         IN  IF a[i] > b[i] THEN -1 ELSE 1

priorityOrder(p) == IF p = "high" THEN 0 ELSE IF p = "medium" THEN 1 ELSE 2

\* a comparator that ranks low first
compareLowFirst(a, b, by) ==
    IF by = "priority" THEN priorityOrder(b["priority"]) - priorityOrder(a["priority"])
    ELSE IF by = "alphabetical" THEN localeCompare(a["text"], b["text"])
    ELSE 0

\* the comparator handed to result.sort
compare(a, b, by) ==
    IF by = "priority" THEN priorityOrder(a["priority"]) - priorityOrder(b["priority"])
    ELSE IF by = "alphabetical" THEN localeCompare(a["text"], b["text"])
    ELSE 0

\* Array.prototype.sort, which is stable: each element goes behind the ones
\* before it that the comparator does not rank after it
RECURSIVE sort(_, _)
sort(result, by) ==
    IF result = <<>> THEN <<>>
    ELSE LET x      == result[Len(result)]
             sorted == sort(SubSeq(result, 1, Len(result) - 1), by)
             k      == Cardinality({i \in 1..Len(sorted) : compare(sorted[i], x, by) <= 0})
         IN  SubSeq(sorted, 1, k) \o <<x>> \o SubSeq(sorted, k + 1, Len(sorted))

\* a reverse that leaves the array as it is
reverseSkipped(result) == result

\* Array.prototype.reverse
reverse(result) == [i \in 1..Len(result) |-> result[Len(result) + 1 - i]]

\* a status filter that ignores the selection
statusFilteredSkipped(result, filter) == result

statusFiltered(result, filter) ==
    IF filter = "active" THEN SelectSeq(result, LAMBDA t : ~t["completed"])
    ELSE IF filter = "completed" THEN SelectSeq(result, LAMBDA t : t["completed"])
    ELSE result

\* a search that looks at the text only
searchedTextOnly(result, searchQuery) ==
    IF Trim(searchQuery) # Empty
    THEN SelectSeq(result, LAMBDA t : includes(toLowerCase(t["text"]), toLowerCase(searchQuery)))
    ELSE result

searched(result, searchQuery) ==
    IF Trim(searchQuery) # Empty
    THEN LET query == toLowerCase(searchQuery)
         IN  SelectSeq(result, LAMBDA t :
                 \/ includes(toLowerCase(t["text"]), query)
                 \/ /\ t["category"] \notin {Null, Some(Empty)}
                    /\ includes(toLowerCase(t["category"][1]), query))
    ELSE result

\* a category filter whose value for no filter is the empty string
categoryFilteredEmptyIsAll(result, categoryFilter) ==
    IF categoryFilter # Empty
    THEN SelectSeq(result, LAMBDA t : t["category"] = Some(categoryFilter))
    ELSE result

categoryFiltered(result, categoryFilter) ==
    IF categoryFilter # AllCategories
    THEN SelectSeq(result, LAMBDA t : t["category"] = Some(categoryFilter))
    ELSE result

\* useMemo(() => ..., [todos, filter, searchQuery, sortBy, categoryFilter])
filteredAndSortedTodos ==
    LET filtered == categoryFiltered(searched(statusFiltered(client.todos, client.filter),
                                              client.searchQuery),
                                     client.categoryFilter)
        sorted   == sort(filtered, client.sortBy)
    IN  IF client.sortBy = "newest" THEN reverse(sorted) ELSE sorted

\* a list that renders the todos in the order it is given
TodoListUngrouped(list) == list

\* TodoList: the incomplete todos, then the completed ones
TodoList(list) ==
    SelectSeq(list, LAMBDA t : ~t["completed"]) \o SelectSeq(list, LAMBDA t : t["completed"])

\* what the page shows
rendered == TodoList(filteredAndSortedTodos)

\* FilterBar is on the page when the list of todos is not empty
setFilter(f) ==
    /\ client.todos # <<>>
    /\ client' = [client EXCEPT !.filter = f]
    /\ UNCHANGED <<todos, users, created, held, last, reqs, log>>

setSearchQuery(q) ==
    /\ client.todos # <<>>
    /\ client' = [client EXCEPT !.searchQuery = q]
    /\ UNCHANGED <<todos, users, created, held, last, reqs, log>>

setSortBy(by) ==
    /\ client.todos # <<>>
    /\ client' = [client EXCEPT !.sortBy = by]
    /\ UNCHANGED <<todos, users, created, held, last, reqs, log>>

\* the category menu, shown when there are categories: "all" and every category
setCategoryFilter(c) ==
    /\ client.todos # <<>>
    /\ client.categories # <<>>
    /\ c \in {AllCategories} \cup {client.categories[i] : i \in 1..Len(client.categories)}
    /\ client' = [client EXCEPT !.categoryFilter = c]
    /\ UNCHANGED <<todos, users, created, held, last, reqs, log>>

FilterTypes == {"all", "active", "completed"}

SortTypes == {"newest", "oldest", "priority", "alphabetical"}

\* what is typed into the search box: nothing, a space, "B", "ab", " b"
SearchQueries == {Empty, Space, StrB, <<97, 98>>, <<32, 98>>}

CategoryValues == {AllCategories, StrA, StrB}

NextView ==
    \/ \E f \in FilterTypes : setFilter(f)
    \/ \E q \in SearchQueries : setSearchQuery(q)
    \/ \E by \in SortTypes : setSortBy(by)
    \/ \E c \in CategoryValues : setCategoryFilter(c)

----------------------------------------------------------------------------
(* SpecQuery: the page loaded against a store of up to MaxSnapshot todos    *)

\* the todos the store of SpecQuery is made of, without their ids
Shape(text, completed, priority, category) ==
    [text |-> text, completed |-> completed, priority |-> priority, category |-> category]

Shapes ==
    {Shape(<<65, 98>>, FALSE, "high",   Null),
     Shape(<<98>>,     TRUE,  "medium", Some(StrB)),
     Shape(StrA,       FALSE, "low",    Some(Empty)),
     Shape(StrB,       TRUE,  "high",   Some(AllCategories)),
     Shape(StrA,       FALSE, "medium", Some(StrB))}

\* the store after todos of the given shapes were created with ids 1, 2, ...
StoreOf(shapes) ==
    [i \in 1..Len(shapes) |->
        [key |-> i, value |-> [id        |-> i,
                               text      |-> shapes[i].text,
                               completed |-> shapes[i].completed,
                               priority  |-> shapes[i].priority,
                               category  |-> shapes[i].category]]]

InitQuery ==
    /\ \E n \in 0..MaxSnapshot : \E shapes \in [1..n -> Shapes] : todos = StoreOf(shapes)
    /\ created = [i \in 1..Len(todos) |-> i]
    /\ users = <<>>
    /\ held = {}
    /\ last = Response("GET /api/categories", 0, NoBody, NoBody, 200, getCategories)
    /\ reqs = <<>>
    /\ log = <<>>
    /\ client = Home(getAllTodos, getCategories)

SpecQuery == InitQuery /\ [][NextView]_vars

----------------------------------------------------------------------------
(* SpecClient: the page and the server together.  A mutation is the request *)
(* with the server's handler and the mutation's onSuccess or onError; the   *)
(* fetch that an invalidated query starts is a step of its own.             *)

AddedIds == 1..MaxAdded

\* what the add form is submitted with: the text " B", the priority high, and
\* no category, "B" or "all"
FormTexts == {<<32, 66>>}
FormPriorities == {"high"}
FormCategories == {Empty, StrB, AllCategories}

\* addTaskSchema, onSubmit and addTodoMutation: the body of the POST
AddBody(text, priority, category) ==
    ("text" :> Trim(text)) @@ ("completed" :> FALSE) @@ ("priority" :> priority)
        @@ ("category" :> IF Trim(category) = Empty THEN Null ELSE Some(Trim(category)))

\* the add form submitted and answered 201 (the form lets no text pass that is
\* empty after trimming, and its body always passes insertTodoSchema)
ClientAdd(text, priority, category, id) ==
    /\ Trim(text) # Empty /\ Len(Trim(text)) <= MaxTextLen
    /\ insertTodoSchemaOk(AddBody(text, priority, category))
    /\ Fresh(id)
    /\ todos' = createTodo(id, insertTodoSchema(AddBody(text, priority, category)))
    /\ created' = Append(created, id)
    /\ last' = Response("POST /api/todos", id, AddBody(text, priority, category),
                        insertTodoSchema(AddBody(text, priority, category)), 201,
                        MapGet(todos', id))
    /\ client' = [client EXCEPT !.added = id, !.stale = {TodosQuery, CategoriesQuery}]
    /\ UNCHANGED <<users, held, reqs, log>>

\* the checkbox of a rendered todo: PATCH { completed }, 200 or 404
ClientToggle(id) ==
    /\ id \in {rendered[i]["id"] : i \in 1..Len(rendered)}
    /\ LET shown == CHOOSE t \in {rendered[i] : i \in 1..Len(rendered)} : t["id"] = id
           body  == "completed" :> ~shown["completed"]
       IN  IF updateTodoAbsent(id)
           THEN /\ last' = Response("PATCH /api/todos/:id", id, body, body, 404, NoBody)
                /\ UNCHANGED <<todos, client>>
           ELSE /\ todos' = updateTodo(id, updateTodoSchema(body))
                /\ last' = Response("PATCH /api/todos/:id", id, body, body, 200,
                                    MapGet(todos', id))
                /\ client' = [client EXCEPT !.added = 0,
                                            !.stale = @ \cup {TodosQuery}]
    /\ UNCHANGED <<users, created, held, reqs, log>>

\* the delete button of a rendered todo: DELETE, 204 or 404
ClientDelete(id) ==
    /\ id \in {rendered[i]["id"] : i \in 1..Len(rendered)}
    /\ todos' = deleteTodo(id)
    /\ last' = Response("DELETE /api/todos/:id", id, NoBody, NoBody,
                        IF deleteTodoResult(id) THEN 204 ELSE 404, NoBody)
    /\ IF deleteTodoResult(id)
       THEN client' = [client EXCEPT !.added = 0, !.stale = {TodosQuery, CategoriesQuery}]
       ELSE UNCHANGED client
    /\ UNCHANGED <<users, created, held, reqs, log>>

\* the invalidated query of the todos is fetched again
RefetchTodos ==
    /\ TodosQuery \in client.stale
    /\ client' = [client EXCEPT !.todos = getAllTodos, !.stale = @ \ {TodosQuery}]
    /\ UNCHANGED <<todos, users, created, held, last, reqs, log>>

\* the invalidated query of the categories is fetched again
RefetchCategories ==
    /\ CategoriesQuery \in client.stale
    /\ client' = [client EXCEPT !.categories = getCategories, !.stale = @ \ {CategoriesQuery}]
    /\ UNCHANGED <<todos, users, created, held, last, reqs, log>>

\* the page loaded against the empty store
InitClient ==
    /\ todos = <<>>
    /\ users = <<>>
    /\ created = <<>>
    /\ held = {}
    /\ last = Response("none", 0, NoBody, NoBody, 0, NoBody)
    /\ reqs = <<>>
    /\ log = <<>>
    /\ client = Home(<<>>, <<>>)

NextClient ==
    \/ \E text \in FormTexts : \E priority \in FormPriorities : \E category \in FormCategories :
           \E id \in AddedIds \cap {NextId} : ClientAdd(text, priority, category, id)
    \/ \E id \in AddedIds : ClientToggle(id)
    \/ \E id \in AddedIds : ClientDelete(id)
    \/ RefetchTodos
    \/ RefetchCategories
    \/ \E c \in CategoryValues : setCategoryFilter(c)

SpecClient == InitClient /\ [][NextClient]_vars

----------------------------------------------------------------------------
(* SpecStore: the todos and the users of one MemStorage together *)

StoreIds == 1..MaxStore

StorePostBodies == {NoBody, ("text" :> StrA), ("text" :> StrA) @@ ("category" :> Some(StrB))}

StorePatchBodies ==
    {("completed" :> TRUE), ("category" :> Some(StrB)), ("text" :> Empty),
     ("priority" :> "urgent")}

StoreUsers == {[username |-> StrA, password |-> StrB]}

NextStore ==
    \/ GetTodos
    \/ GetCategories
    \/ \E body \in StorePostBodies : \E id \in StoreIds \cap {NextId} : PostTodo(body, id)
    \/ \E id \in StoreIds : \E body \in StorePatchBodies : PatchTodo(id, body)
    \/ \E id \in StoreIds : DeleteTodo(id)
    \/ \E insertUser \in StoreUsers : \E id \in StoreIds \cap {Len(users) + 1} :
           createUser(insertUser, id)

SpecStore == Init /\ [][NextStore]_vars

----------------------------------------------------------------------------
(* SpecFlight: the page with its requests in flight.  A mutation or a fetch *)
(* is sent, handled by the server (a handler and its storage call in one    *)
(* step), and settled in the page when its response arrives; requests are   *)
(* handled, and responses arrive, in any order.  reqs is the bag of the     *)
(* requests in flight.                                                      *)

\* the ids of the todos the page adds in SpecFlight
FlightIds == {1}

\* a request in flight: pc is "sent" until the server has handled it and
\* "answered" from then on; todos and categories are the data of a fetch
Flight(kind, id, body, pc, status, todosData, categoriesData) ==
    [kind |-> kind, id |-> id, body |-> body, pc |-> pc, status |-> status,
     todos |-> todosData, categories |-> categoriesData]

Sent(kind, id, body) == Flight(kind, id, body, "sent", 0, <<>>, <<>>)

BagAdd(bag, x) ==
    IF x \in DOMAIN bag THEN [bag EXCEPT ![x] = @ + 1] ELSE bag @@ (x :> 1)

BagRemove(bag, x) ==
    IF bag[x] > 1 THEN [bag EXCEPT ![x] = @ - 1]
    ELSE IF DOMAIN bag = {x} THEN <<>>
    ELSE [y \in (DOMAIN bag) \ {x} |-> bag[y]]

RECURSIVE BagSum(_, _)
BagSum(bag, S) ==
    IF S = {} THEN 0 ELSE LET x == CHOOSE y \in S : TRUE IN bag[x] + BagSum(bag, S \ {x})

\* the mutations the controls of the page start (no control starts
\* updatePriorityMutation or updateCategoryMutation)
Mutations == {"add", "toggle", "edit", "delete"}

\* how many mutations are in flight
InFlight == BagSum(reqs, {f \in DOMAIN reqs : f.kind \in Mutations})

\* the queries a mutation invalidates in onSuccess
invalidates(kind) ==
    IF kind \in {"add", "delete"} THEN {TodosQuery, CategoriesQuery}
    ELSE {TodosQuery}

\* invalidateQueries for one query: a fetch of it in flight is cancelled when
\* the query has data already, and goes on, standing for the new fetch, when the
\* query has none yet; otherwise a new fetch is sent
startFetch(bag, query) ==
    LET fetching == {f \in DOMAIN bag : f.kind = query}
        keep     == (DOMAIN bag) \ fetching
        kept     == IF keep = {} THEN <<>> ELSE [f \in keep |-> bag[f]]
    IN  IF fetching # {} /\ query \notin client.loaded THEN bag
        ELSE BagAdd(kept, Sent(query, 0, NoBody))

\* invalidateQueries for each of the queries
startFetches(bag, queries) ==
    LET first == IF TodosQuery \in queries THEN startFetch(bag, TodosQuery) ELSE bag
    IN  IF CategoriesQuery \in queries THEN startFetch(first, CategoriesQuery) ELSE first

\* an id set that is cleaned up in onSuccess only
idsAfterSuccess(ids, id, status) == IF status < 400 THEN ids \ {id} ELSE ids

\* onSettled: next.delete(id)
idsAfterSettled(ids, id, status) == ids \ {id}

\* the todo the page shows under the id
Shown(id) == CHOOSE t \in {rendered[i] : i \in 1..Len(rendered)} : t["id"] = id

IsShown(id) == \E i \in 1..Len(rendered) : rendered[i]["id"] = id

\* the add form, which is disabled while an add is in flight
AddStart(text, priority, category) ==
    /\ Trim(text) # Empty /\ Len(Trim(text)) <= MaxTextLen
    /\ \A f \in DOMAIN reqs : f.kind # "add"
    /\ Len(created) < Cardinality(FlightIds)
    /\ InFlight < MaxInFlight
    /\ reqs' = BagAdd(reqs, Sent("add", 0, AddBody(text, priority, category)))
    /\ UNCHANGED <<todos, users, created, held, last, log, client>>

\* the checkbox, which is disabled while the todo is toggling or deleting
ToggleStart(id) ==
    /\ IsShown(id)
    /\ id \notin client.togglingIds /\ id \notin client.deletingIds
    /\ InFlight < MaxInFlight
    /\ client' = [client EXCEPT !.togglingIds = @ \cup {id}]
    /\ reqs' = BagAdd(reqs, Sent("toggle", id, "completed" :> ~Shown(id)["completed"]))
    /\ UNCHANGED <<todos, users, created, held, last, log>>

\* the pencil, which is disabled while the todo is deleting or when it is
\* completed, and the edit form, which is disabled while the todo is saving
EditStart(id, text) ==
    /\ IsShown(id)
    /\ id \notin client.deletingIds /\ ~Shown(id)["completed"]
    /\ id \notin client.savingIds
    /\ Trim(text) # Empty /\ Len(Trim(text)) <= MaxTextLen
    /\ InFlight < MaxInFlight
    /\ client' = [client EXCEPT !.savingIds = @ \cup {id}]
    /\ reqs' = BagAdd(reqs, Sent("edit", id, "text" :> Trim(text)))
    /\ UNCHANGED <<todos, users, created, held, last, log>>

\* the delete button, which is disabled while the todo is deleting
DeleteStart(id) ==
    /\ IsShown(id)
    /\ id \notin client.deletingIds
    /\ InFlight < MaxInFlight
    /\ client' = [client EXCEPT !.deletingIds = @ \cup {id}]
    /\ reqs' = BagAdd(reqs, Sent("delete", id, NoBody))
    /\ UNCHANGED <<todos, users, created, held, last, log>>

Answered(f, id, status, todosData, categoriesData) ==
    BagAdd(BagRemove(reqs, f),
           Flight(f.kind, id, f.body, "answered", status, todosData, categoriesData))

\* app.post("/api/todos") for a request of the page
ServeAdd(f, id) ==
    /\ f \in DOMAIN reqs /\ f.pc = "sent" /\ f.kind = "add"
    /\ insertTodoSchemaOk(f.body)
    /\ Fresh(id)
    /\ todos' = createTodo(id, insertTodoSchema(f.body))
    /\ created' = Append(created, id)
    /\ reqs' = Answered(f, id, 201, <<>>, <<>>)
    /\ UNCHANGED <<users, held, last, log, client>>

\* app.patch("/api/todos/:id") for a request of the page
ServePatch(f) ==
    /\ f \in DOMAIN reqs /\ f.pc = "sent" /\ f.kind \in {"toggle", "edit"}
    /\ updateTodoSchemaOk(f.body)
    /\ todos' = updateTodo(f.id, updateTodoSchema(f.body))
    /\ reqs' = Answered(f, f.id, IF updateTodoAbsent(f.id) THEN 404 ELSE 200, <<>>, <<>>)
    /\ UNCHANGED <<users, created, held, last, log, client>>

\* app.delete("/api/todos/:id") for a request of the page
ServeDelete(f) ==
    /\ f \in DOMAIN reqs /\ f.pc = "sent" /\ f.kind = "delete"
    /\ todos' = deleteTodo(f.id)
    /\ reqs' = Answered(f, f.id, IF deleteTodoResult(f.id) THEN 204 ELSE 404, <<>>, <<>>)
    /\ UNCHANGED <<users, created, held, last, log, client>>

\* app.get("/api/todos") and app.get("/api/categories") for a fetch of the page
ServeFetch(f) ==
    /\ f \in DOMAIN reqs /\ f.pc = "sent" /\ f.kind \in {TodosQuery, CategoriesQuery}
    /\ reqs' = IF f.kind = TodosQuery THEN Answered(f, 0, 200, getAllTodos, <<>>)
               ELSE Answered(f, 0, 200, <<>>, getCategories)
    /\ UNCHANGED <<todos, users, created, held, last, log, client>>

\* the response of a mutation arrives: onSuccess or onError, then onSettled
SettleMutation(f) ==
    /\ f \in DOMAIN reqs /\ f.pc = "answered" /\ f.kind \in Mutations
    /\ LET queries == IF f.status < 400 THEN invalidates(f.kind) ELSE {}
       IN  /\ reqs' = startFetches(BagRemove(reqs, f), queries)
           /\ client' =
                 [client EXCEPT
                    !.togglingIds = IF f.kind = "toggle"
                                    THEN idsAfterSettled(@, f.id, f.status) ELSE @,
                    !.savingIds   = IF f.kind = "edit"
                                    THEN idsAfterSettled(@, f.id, f.status) ELSE @,
                    !.deletingIds = IF f.kind = "delete"
                                    THEN idsAfterSettled(@, f.id, f.status) ELSE @]
    /\ UNCHANGED <<todos, users, created, held, last, log>>

\* the response of a fetch arrives: the data of the query is replaced
SettleFetch(f) ==
    /\ f \in DOMAIN reqs /\ f.pc = "answered" /\ f.kind \in {TodosQuery, CategoriesQuery}
    /\ reqs' = BagRemove(reqs, f)
    /\ client' = IF f.kind = TodosQuery
                 THEN [client EXCEPT !.todos = f.todos,
                                     !.loaded = @ \cup {TodosQuery}]
                 ELSE [client EXCEPT !.categories = f.categories,
                                     !.loaded = @ \cup {CategoriesQuery}]
    /\ UNCHANGED <<todos, users, created, held, last, log>>

\* what the add form and the edit form of SpecFlight are submitted with
FlightCategories == {StrB}

FlightTexts == {StrA}

NextFlight ==
    \/ \E category \in FlightCategories : AddStart(<<32, 66>>, "high", category)
    \/ \E id \in FlightIds : ToggleStart(id)
    \/ \E id \in FlightIds : \E text \in FlightTexts : EditStart(id, text)
    \/ \E id \in FlightIds : DeleteStart(id)
    \/ \E f \in DOMAIN reqs : \E id \in FlightIds \cap {NextId} : ServeAdd(f, id)
    \/ \E f \in DOMAIN reqs : ServePatch(f)
    \/ \E f \in DOMAIN reqs : ServeDelete(f)
    \/ \E f \in DOMAIN reqs : ServeFetch(f)
    \/ \E f \in DOMAIN reqs : SettleMutation(f)
    \/ \E f \in DOMAIN reqs : SettleFetch(f)

\* the page is mounted against the empty store: both queries are fetching and
\* have no data yet
InitFlight ==
    /\ todos = <<>>
    /\ users = <<>>
    /\ created = <<>>
    /\ held = {}
    /\ last = Response("none", 0, NoBody, NoBody, 0, NoBody)
    /\ log = <<>>
    /\ reqs = (Sent(TodosQuery, 0, NoBody) :> 1) @@ (Sent(CategoriesQuery, 0, NoBody) :> 1)
    /\ client = [Home(<<>>, <<>>) EXCEPT !.loaded = {}]

SpecFlight == InitFlight /\ [][NextFlight]_vars

----------------------------------------------------------------------------
(* Properties *)

Range(f) == {f[x] : x \in DOMAIN f}

Stored == Range(MapValues(todos))

PATCH == "PATCH /api/todos/:id"
POST == "POST /api/todos"
DELETE == "DELETE /api/todos/:id"

\* C1: an update that reaches updateTodo without an id key stores and returns a
\* record in which exactly the keys of the update have the update's values and
\* every other field has the value the todo had before the call.
C1_PartialMerge ==
    [][(last'.op = PATCH /\ last'.status = 200 /\ "id" \notin DOMAIN last'.arg) =>
          /\ MapHas(todos, last'.id)
          /\ MapHas(todos', last'.id)
          /\ LET t == MapGet(todos, last'.id)
                 r == MapGet(todos', last'.id)
                 u == last'.arg
             IN  /\ last'.ret = r
                 /\ DOMAIN r = DOMAIN t
                 /\ \A f \in DOMAIN t :
                       r[f] = IF f \in DOMAIN u THEN u[f] ELSE t[f]]_vars

\* an update of two fields has been applied to a todo whose other fields are
\* not the defaults
C1_Witness ==
    /\ last.op = PATCH
    /\ last.status = 200
    /\ DOMAIN last.arg = {"completed", "category"}
    /\ MapGet(todos, last.id)["text"] = StrA
    /\ MapGet(todos, last.id)["priority"] = "high"

\* C2: every todo is stored under its own id, also after PATCH requests whose
\* body carries an id.
C2_IdImmutable ==
    \A i \in 1..Len(todos) : todos[i].value["id"] = todos[i].key

\* a PATCH whose body carries another id than the one in the path succeeded
C2_Witness ==
    /\ last.op = PATCH
    /\ last.status = 200
    /\ "id" \in DOMAIN last.body
    /\ last.body["id"] # last.id
    /\ "text" \in DOMAIN last.arg

\* C3: every stored todo has a text that is non-empty after trimming and at
\* most 500 characters long.
C3_TextValid ==
    \A t \in Stored : Trim(t["text"]) # Empty /\ Len(t["text"]) <= MaxTextLen

\* C4: when a caller assigns to a record that getTodo or getAllTodos returned,
\* what getAllTodos, getTodo and getCategories return does not change.
C4_ReturnedCopies ==
    [][last'.op = "write" => getAllTodos' = getAllTodos /\ getCategories' = getCategories]_vars

StrictlyAscending(seq) ==
    \A i, j \in 1..Len(seq) : i < j => StrLess(seq[i], seq[j])

\* C5 as stated: getCategories returns the distinct non-null categories of the
\* stored todos, each once, in ascending order.
C5_AllNonNull ==
    /\ StrictlyAscending(getCategories)
    /\ Range(getCategories) = {t["category"][1] : t \in {x \in Stored : x["category"] # Null}}

\* C5 amended: getCategories returns the distinct categories of the stored
\* todos that are neither null nor the empty string, each once, in ascending
\* order of code units; GET /api/categories answers with that list.
C5_NonEmptyCategories ==
    /\ StrictlyAscending(getCategories)
    /\ Range(getCategories) =
          {t["category"][1] : t \in {x \in Stored :
                                        x["category"] # Null /\ x["category"] # Some(Empty)}}
    /\ last.op = "GET /api/categories" => last.ret = getCategories

\* three todos are stored and the categories were listed as "B", "a"
C5_Witness ==
    /\ last.op = "GET /api/categories"
    /\ last.ret = <<StrB, StrA>>
    /\ Len(todos) = 3

\* C6: DELETE answers 204 (deleteTodo returned true) exactly when the id was
\* stored, and then the todo is gone and the others stay as they were, in
\* order; otherwise it answers 404 and the collection is unchanged; a delete
\* right after a successful delete of the same id answers 404.
C6_Delete ==
    [][last'.op = DELETE =>
          /\ last'.status = IF MapHas(todos, last'.id) THEN 204 ELSE 404
          /\ ~MapHas(todos', last'.id)
          /\ todos' = SelectSeq(todos, LAMBDA e : e.key # last'.id)
          /\ ~MapHas(todos, last'.id) => todos' = todos
          /\ (last.op = DELETE /\ last.status = 204 /\ last.id = last'.id) =>
                last'.status = 404]_vars

\* a DELETE of an id that had been created, and deleted, answered 404
C6_Witness ==
    /\ last.op = DELETE
    /\ last.status = 404
    /\ last.id \in Range(created)

\* C7: a valid PATCH of an id that is not stored answers 404 (updateTodo
\* returned undefined) and leaves the collection as it was.
C7_UpdateAbsent ==
    [][(last'.op = PATCH /\ last'.status # 400 /\ ~MapHas(todos, last'.id)) =>
          /\ last'.status = 404
          /\ todos' = todos]_vars

\* a non-empty update of an id that had been created, and deleted, answered 404
C7_Witness ==
    /\ last.op = PATCH
    /\ last.status = 404
    /\ last.id \in Range(created)
    /\ last.arg # NoBody

\* C8: the todo a valid POST stores and returns has the text of the body, and
\* for completed, priority and category the value of the body when the body has
\* the key, and false, "medium" and null when it has not.
C8_CreateDefaults ==
    (last.op = POST /\ last.status = 201) =>
        /\ MapHas(todos, last.id)
        /\ MapGet(todos, last.id) = last.ret
        /\ last.ret["text"] = last.body["text"]
        /\ last.ret["completed"] =
              IF "completed" \in DOMAIN last.body THEN last.body["completed"] ELSE FALSE
        /\ last.ret["priority"] =
              IF "priority" \in DOMAIN last.body THEN last.body["priority"] ELSE "medium"
        /\ last.ret["category"] =
              IF "category" \in DOMAIN last.body THEN last.body["category"] ELSE Null

\* a todo was created from a body that supplies every optional field
C8_Witness ==
    /\ last.op = POST
    /\ last.status = 201
    /\ DOMAIN last.body = {"text", "completed", "priority", "category"}
    /\ last.ret["category"] = Some(StrB)

\* C9: getAllTodos lists every stored todo once, in the order of creation.
C9_InsertionOrder ==
    [i \in 1..Len(getAllTodos) |-> getAllTodos[i]["id"]]
        = SelectSeq(created, LAMBDA k : MapHas(todos, k))

\* three todos were created, one was deleted, the older of the two that are
\* left has the greater id and has just been updated
C9_Witness ==
    /\ Len(created) = 3
    /\ Len(todos) = 2
    /\ todos[1].key > todos[2].key
    /\ last.op = PATCH
    /\ last.status = 200
    /\ last.id = todos[1].key

\* C10: no two stored users share a username.
C10_UniqueUsernames ==
    \A i, j \in 1..Len(users) :
        i # j => users[i].value.username # users[j].value.username

----------------------------------------------------------------------------
(* Storage calls one after another: the todos as a function from id to      *)
(* record, and what each call does to it and returns                        *)

SeqCreate(m, id, fields) ==
    m @@ (id :> [id        |-> id,
                 text      |-> fields["text"],
                 completed |-> IF "completed" \in DOMAIN fields THEN fields["completed"]
                               ELSE FALSE,
                 priority  |-> IF "priority" \in DOMAIN fields THEN fields["priority"]
                               ELSE "medium",
                 category  |-> IF "category" \in DOMAIN fields THEN fields["category"]
                               ELSE Null])

SeqUpdate(m, id, fields) ==
    IF id \notin DOMAIN m THEN m
    ELSE [k \in DOMAIN m |->
            IF k # id THEN m[k]
            ELSE [f \in DOMAIN m[k] |-> IF f \in DOMAIN fields THEN fields[f] ELSE m[k][f]]]

SeqDelete(m, id) == [k \in (DOMAIN m) \ {id} |-> m[k]]

SeqStep(m, call) ==
    IF call.method = "createTodo" THEN SeqCreate(m, call.id, call.arg)
    ELSE IF call.method = "updateTodo" THEN SeqUpdate(m, call.id, call.arg)
    ELSE IF call.method = "deleteTodo" THEN SeqDelete(m, call.id)
    ELSE m

\* the todos after the first n calls of the log, run one after another
RECURSIVE Replay(_)
Replay(n) == IF n = 0 THEN <<>> ELSE SeqStep(Replay(n - 1), log[n])

StoreAsFunction == [k \in MapKeys(todos) |-> MapGet(todos, k)]

\* the n-th call of the log returned what it returns when the calls run one
\* after another
ReturnedInSequence(n) ==
    LET call   == log[n]
        value  == reqs[call.req].value
        before == Replay(n - 1)
        after  == Replay(n)
    IN  IF call.method = "getAllTodos"
            THEN Range(value) = Range(before) /\ Len(value) = Cardinality(DOMAIN before)
        ELSE IF call.method = "createTodo" THEN value = after[call.id]
        ELSE IF call.method = "updateTodo"
            THEN value = IF call.id \in DOMAIN before THEN <<after[call.id]>> ELSE <<>>
        ELSE value = (call.id \in DOMAIN before)

\* C11: with requests handled concurrently, the store is at every moment what
\* the storage calls made so far produce when run one after another in the
\* order of the log, and every call returned what it returns in that sequence
\* (no request sees a half-applied update, and no update is lost).
C11_Serializable ==
    /\ DOMAIN StoreAsFunction = DOMAIN Replay(Len(log))
    /\ \A k \in MapKeys(todos) : StoreAsFunction[k] = Replay(Len(log))[k]
    /\ \A n \in 1..Len(log) : ReturnedInSequence(n)

\* two PATCH requests for the same todo, one setting completed and one setting
\* category, are both waiting to respond, and the todo has both values
C11_Witness ==
    \E r1, r2 \in 1..Len(reqs) :
        /\ reqs[r1].pc = "awaiting" /\ reqs[r2].pc = "awaiting"
        /\ reqs[r1].op = PATCH /\ reqs[r2].op = PATCH
        /\ reqs[r1].id = reqs[r2].id
        /\ DOMAIN reqs[r1].body = {"completed"} /\ DOMAIN reqs[r2].body = {"category"}
        /\ MapHas(todos, reqs[r1].id)
        /\ MapGet(todos, reqs[r1].id)["completed"] = TRUE
        /\ MapGet(todos, reqs[r1].id)["category"] = Some(StrB)

\* a payload that fails validation: a create without text, or a priority that
\* is none of low, medium, high
FailsValidation(op, body) ==
    \/ op = POST /\ "text" \notin DOMAIN body
    \/ "priority" \in DOMAIN body /\ body["priority"] \notin {"low", "medium", "high"}

\* C17: a POST or PATCH whose payload fails validation is answered 400 and
\* leaves the collection (and the ids handed out) as they were, whether or not
\* the id of the PATCH is stored.
C17_InvalidRejected ==
    [][(last'.op \in {POST, PATCH} /\ FailsValidation(last'.op, last'.body)) =>
          /\ last'.status = 400
          /\ todos' = todos
          /\ created' = created]_vars

\* an invalid PATCH of an id that is not stored, while other todos are, was
\* answered 400
C17_Witness ==
    /\ last.op = PATCH
    /\ FailsValidation(last.op, last.body)
    /\ last.status = 400
    /\ ~MapHas(todos, last.id)
    /\ todos # <<>>

----------------------------------------------------------------------------
(* The query layer *)

\* the snapshot: the todos the page was given
Snapshot == Range(client.todos)

IdsOf(list) == {list[i]["id"] : i \in 1..Len(list)}

\* two code units are the same letter in either case, or the same code unit
SameIgnoringCase(x, y) ==
    \/ x = y
    \/ x \in 65..90 /\ y = x + 32
    \/ y \in 65..90 /\ x = y + 32

ContainsIgnoringCase(s, q) ==
    \E off \in 0..(Len(s) - Len(q)) : \A j \in 1..Len(q) : SameIgnoringCase(s[off + j], q[j])

Blank(q) == \A i \in 1..Len(q) : q[i] = 32

MatchesSearch(t, q) ==
    \/ Blank(q)
    \/ ContainsIgnoringCase(t["text"], q)
    \/ t["category"] # Null /\ ContainsIgnoringCase(t["category"][1], q)

\* C12: with no status and no category filter, the result holds exactly the
\* todos of the snapshot whose text, or whose category when it has one, contains
\* the search string ignoring case, and every todo when the search string is
\* empty or only spaces.
C12_Search ==
    (client.filter = "all" /\ client.categoryFilter = AllCategories) =>
        IdsOf(filteredAndSortedTodos)
            = {t["id"] : t \in {u \in Snapshot : MatchesSearch(u, client.searchQuery)}}

\* the search for "B" keeps a todo for its category alone and drops another
C12_Witness ==
    /\ client.filter = "all" /\ client.categoryFilter = AllCategories
    /\ client.searchQuery = StrB
    /\ \E t \in Range(filteredAndSortedTodos) :
           /\ ~ContainsIgnoringCase(t["text"], StrB)
           /\ t["category"] = Some(StrB)
    /\ Len(filteredAndSortedTodos) < Len(client.todos)

\* where the todo with the given id stands in a list
PosIn(list, id) == CHOOSE i \in 1..Len(list) : list[i]["id"] = id

Rank(p) == CASE p = "high" -> 1 [] p = "medium" -> 2 [] p = "low" -> 3

\* C13: with sort order priority, of any two todos of the result the earlier
\* one has the higher priority, or the same priority and the earlier place in
\* the snapshot.
C13_PrioritySort ==
    client.sortBy = "priority" =>
        \A i, j \in 1..Len(filteredAndSortedTodos) :
            LET a == filteredAndSortedTodos[i]
                b == filteredAndSortedTodos[j]
            IN  i < j =>
                    \/ Rank(a["priority"]) < Rank(b["priority"])
                    \/ /\ a["priority"] = b["priority"]
                       /\ PosIn(client.todos, a["id"]) < PosIn(client.todos, b["id"])

\* the snapshot [high, medium, high] sorted by priority is its first, third and
\* second todo
C13_Witness ==
    /\ client.sortBy = "priority"
    /\ Len(client.todos) = 3
    /\ <<client.todos[1]["priority"], client.todos[2]["priority"], client.todos[3]["priority"]>>
           = <<"high", "medium", "high">>
    /\ Len(filteredAndSortedTodos) = 3
    /\ <<filteredAndSortedTodos[1]["id"], filteredAndSortedTodos[2]["id"],
         filteredAndSortedTodos[3]["id"]>>
           = <<client.todos[1]["id"], client.todos[3]["id"], client.todos[2]["id"]>>

\* a todo that passes the status filter, the search and the category filter
Kept(t) ==
    /\ client.filter = "active" => t["completed"] = FALSE
    /\ client.filter = "completed" => t["completed"] = TRUE
    /\ MatchesSearch(t, client.searchQuery)
    /\ client.categoryFilter # AllCategories => t["category"] = Some(client.categoryFilter)

\* C15: for every status filter, search string and category filter the result
\* holds exactly the todos of the snapshot that pass all of them, each once and
\* as it is in the snapshot.
C15_FiltersCombine ==
    /\ IdsOf(filteredAndSortedTodos) = {t["id"] : t \in {u \in Snapshot : Kept(u)}}
    /\ Len(filteredAndSortedTodos) = Cardinality(IdsOf(filteredAndSortedTodos))
    /\ Range(filteredAndSortedTodos) \subseteq Snapshot

\* the three filters are active together and keep a todo; the status filter
\* alone drops a todo the other two let pass, and the category filter another
C15_Witness ==
    /\ client.filter = "active"
    /\ ~Blank(client.searchQuery)
    /\ client.categoryFilter # AllCategories
    /\ filteredAndSortedTodos # <<>>
    /\ \E t \in Snapshot : t["completed"] /\ MatchesSearch(t, client.searchQuery)
                           /\ t["category"] = Some(client.categoryFilter)
    /\ \E t \in Snapshot : ~t["completed"] /\ MatchesSearch(t, client.searchQuery)
                           /\ t["category"] # Some(client.categoryFilter)

\* C14: with sort order oldest the result lists the todos that pass the filters
\* in the order of the snapshot, and with newest the same todos in the reverse
\* of that order.
C14_OldestNewest ==
    /\ client.sortBy \in {"oldest", "newest"} =>
           IdsOf(filteredAndSortedTodos) = {t["id"] : t \in {u \in Snapshot : Kept(u)}}
    /\ client.sortBy = "oldest" =>
           \A i, j \in 1..Len(filteredAndSortedTodos) :
               i < j => PosIn(client.todos, filteredAndSortedTodos[i]["id"])
                            < PosIn(client.todos, filteredAndSortedTodos[j]["id"])
    /\ client.sortBy = "newest" =>
           \A i, j \in 1..Len(filteredAndSortedTodos) :
               i < j => PosIn(client.todos, filteredAndSortedTodos[i]["id"])
                            > PosIn(client.todos, filteredAndSortedTodos[j]["id"])

\* newest shows three todos, a filter having dropped one in between, last first
C14_Witness ==
    /\ client.sortBy = "newest"
    /\ Len(client.todos) = 3
    /\ Len(filteredAndSortedTodos) = 2
    /\ filteredAndSortedTodos[1]["id"] = client.todos[3]["id"]
    /\ filteredAndSortedTodos[2]["id"] = client.todos[1]["id"]

\* C16: a category filter other than "all" keeps exactly the todos of that
\* category; "all" keeps every todo, and it is not the empty string: filtering
\* for the empty string keeps exactly the todos whose category is the empty
\* string.
C16_CategoryFilter ==
    /\ (client.filter = "all" /\ Blank(client.searchQuery)
            /\ client.categoryFilter # AllCategories) =>
           IdsOf(filteredAndSortedTodos)
               = {t["id"] : t \in {u \in Snapshot : u["category"] = Some(client.categoryFilter)}}
    /\ AllCategories # Empty
    /\ categoryFiltered(client.todos, AllCategories) = client.todos
    /\ IdsOf(categoryFiltered(client.todos, Empty))
           = {t["id"] : t \in {u \in Snapshot : u["category"] = Some(Empty)}}

\* the category "B" is selected and keeps a todo, and the snapshot has a todo
\* whose category is the empty string and one without a category
C16_Witness ==
    /\ client.filter = "all" /\ Blank(client.searchQuery)
    /\ client.categoryFilter = StrB
    /\ filteredAndSortedTodos # <<>>
    /\ \E t \in Snapshot : t["category"] = Some(Empty)
    /\ \E t \in Snapshot : t["category"] = Null

\* a completed todo stands before an incomplete one
CompletedFirst(list) ==
    \E i, j \in 1..Len(list) : i < j /\ list[i]["completed"] /\ ~list[j]["completed"]

\* C20: whatever the sort order, the rendered list holds the todos of the
\* result, no completed todo before an incomplete one, todos of the same group
\* in the order of the result; it is the result itself exactly when no completed
\* todo precedes an incomplete one in the result.
C20_RenderedGroups ==
    /\ ~CompletedFirst(rendered)
    /\ IdsOf(rendered) = IdsOf(filteredAndSortedTodos)
    /\ Len(rendered) = Len(filteredAndSortedTodos)
    /\ Range(rendered) = Range(filteredAndSortedTodos)
    /\ \A i, j \in 1..Len(rendered) :
           (i < j /\ rendered[i]["completed"] = rendered[j]["completed"]) =>
               PosIn(filteredAndSortedTodos, rendered[i]["id"])
                   < PosIn(filteredAndSortedTodos, rendered[j]["id"])
    /\ (rendered = filteredAndSortedTodos) <=> ~CompletedFirst(filteredAndSortedTodos)

\* sorted by priority a completed high todo precedes an incomplete low one,
\* and the page shows them the other way round
C20_Witness ==
    /\ client.sortBy = "priority"
    /\ CompletedFirst(filteredAndSortedTodos)
    /\ rendered # filteredAndSortedTodos
    /\ \E i, j \in 1..Len(rendered) :
           /\ i < j
           /\ ~rendered[i]["completed"] /\ rendered[i]["priority"] = "low"
           /\ rendered[j]["completed"] /\ rendered[j]["priority"] = "high"

----------------------------------------------------------------------------
(* The page and the server *)

DefaultView ==
    /\ client.filter = "all"
    /\ client.searchQuery = Empty
    /\ client.categoryFilter = AllCategories
    /\ client.sortBy = "newest"

\* C18: in the default view, when the latest mutation added a todo and the
\* todos have been fetched again since, the added todo is the first item of
\* the rendered list.
C18_AddedFirst ==
    (DefaultView /\ client.added # 0 /\ TodosQuery \notin client.stale) =>
        /\ rendered # <<>>
        /\ rendered[1]["id"] = client.added

\* a todo was added to a store that held a todo already, the todos were fetched
\* again, and the page shows both
C18_Witness ==
    /\ DefaultView /\ client.added # 0 /\ TodosQuery \notin client.stale
    /\ Len(rendered) >= 2
    /\ client.todos[Len(client.todos)]["id"] = client.added
    /\ rendered[1]["id"] = client.added

\* C19: for every category the menu offers, selecting it keeps exactly the
\* todos of the snapshot that have this category.
C19_MenuCategoryFilters ==
    \A i \in 1..Len(client.categories) :
        IdsOf(categoryFiltered(client.todos, client.categories[i]))
            = {t["id"] : t \in {u \in Snapshot : u["category"] = Some(client.categories[i])}}

----------------------------------------------------------------------------
(* What an operation leaves alone *)

TaskOps == {POST, PATCH, DELETE, "GET /api/todos", "GET /api/categories"}

\* C23: a todo operation leaves the users as they were and every stored todo
\* other than the one it creates or targets exactly as it was (none added, none
\* removed, none changed), and createUser leaves the todos as they were.
C23_Frame ==
    [][/\ last'.op \in TaskOps =>
              /\ users' = users
              /\ \A k \in MapKeys(todos) \cup MapKeys(todos') :
                     k # last'.id =>
                         /\ MapHas(todos, k) /\ MapHas(todos', k)
                         /\ MapGet(todos', k) = MapGet(todos, k)
       /\ last'.op = "createUser" => todos' = todos]_vars

\* a todo was deleted while another todo and a user were stored
C23_Witness ==
    /\ last.op = DELETE /\ last.status = 204
    /\ todos # <<>>
    /\ users # <<>>

----------------------------------------------------------------------------
(* The page with requests in flight *)

\* a request of the kind for the id has been started and has not settled
InFlightFor(kind, id) == \E f \in DOMAIN reqs : f.kind = kind /\ f.id = id

\* C21: an id is in togglingIds (deletingIds, savingIds) exactly while a toggle
\* (delete, edit) request for it is in flight: from the start of the request
\* until it settles, with success or with failure, and not removed while
\* another request of the kind for the id is in flight.
C21_IdSets ==
    \A id \in Range(created) \cup client.togglingIds \cup client.deletingIds
                 \cup client.savingIds :
        /\ id \in client.togglingIds <=> InFlightFor("toggle", id)
        /\ id \in client.deletingIds <=> InFlightFor("delete", id)
        /\ id \in client.savingIds <=> InFlightFor("edit", id)

\* a toggle of a todo that a settled delete has removed was answered 404 and has
\* not settled yet
C21_Witness ==
    \E f \in DOMAIN reqs :
        /\ f.kind = "toggle" /\ f.pc = "answered" /\ f.status = 404
        /\ f.id \in client.togglingIds
        /\ f.id \notin client.deletingIds

\* C22: whenever no mutation and no fetch is in flight, the cached todos are
\* what getAllTodos returns and the cached categories what getCategories
\* returns.
C22_CachesFresh ==
    DOMAIN reqs = {} =>
        /\ client.todos = getAllTodos
        /\ client.categories = getCategories

====
